---- MODULE Spec2Model ----
(***************************************************************************)
(* Model of scripts/decimate_beetle.py: main() drives the host 3D          *)
(* application through reset, import, one decimation modifier per mesh     *)
(* object, export, and a check that the output file exists.                *)
(*                                                                         *)
(* The host application is the environment.  Its operations are modelled   *)
(* by their effect on what the script reads back: the scene's objects      *)
(* (type, vertex count, selection, modifier stack), the active object and  *)
(* the output file.  What the host decides (the imported scene, the vertex *)
(* count a decimation leaves, whether the export can write) is a           *)
(* nondeterministic choice.                                                *)
(***************************************************************************)
EXTENDS Integers, Sequences, FiniteSets

\* ---------------------------------------------------------------- bounds
MaxObjects == 2
MaxVerts == 2
MaxFileSteps == 2

\* ------------------------------------------------------------- constants
\* TARGET_RATIO = 0.02, held as a percentage
TARGET_RATIO_PCT == 2
\* 1024 * 1024 bytes per megabyte in the size report
BytesPerMB == 1024 * 1024
\* granularity of the file sizes the model draws: a quarter megabyte
FileSizeStep == BytesPerMB \div 4

VARIABLES
    pc,                 \* position in main()
    scene,              \* bpy.context.scene.objects: sequence of object records
    active,             \* bpy.context.view_layer.objects.active: index or 0 (None)
    mesh_objects,       \* the list built at line 36: indices into scene
    idx,                \* position of the for loop of line 46 in mesh_objects
    total_verts_before, \* line 42
    total_verts_after,  \* line 65
    fileExists,         \* a file exists at output_file
    fileSize,           \* its size in bytes (0 when absent)
    dirReachable,       \* the export can write to the output path
    exitCode,           \* process exit code, -1 while running
    raisedAt,           \* "none", or the step where an exception left main()
    log,                \* what was printed, in order
    ops,                \* host operations invoked, in order
    verts0,             \* history: vertex counts of the scene as imported
    scriptSelected,     \* history: objects the script called select_set(True) on
    exportWrote         \* history: this run's export wrote the output file

vars == <<pc, scene, active, mesh_objects, idx, total_verts_before,
          total_verts_after, fileExists, fileSize, dirReachable, exitCode,
          raisedAt, log, ops, verts0, scriptSelected, exportWrote>>

\* ---------------------------------------------------------------- helpers
Msg(m, a, b, c) == [msg |-> m, a |-> a, b |-> b, c |-> c]

Emit(m, a, b, c) == log' = Append(log, Msg(m, a, b, c))

Invoke(op) == ops' = Append(ops, op)

\* an object of the scene as the script sees it
Object(type, verts, selected) ==
    [type |-> type, verts |-> verts, selected |-> selected,
     modifiers |-> <<>>, applied |-> <<>>, created |-> 0]

\* objects an import can produce: meshes with 0..MaxVerts vertices, and
\* objects of another type (which carry no mesh data)
ImportedObjects ==
    {Object("MESH", v, s) : v \in 0..MaxVerts, s \in BOOLEAN}
        \cup {Object("EMPTY", 0, s) : s \in BOOLEAN}

ImportedScenes == UNION {[1..n -> ImportedObjects] : n \in 0..MaxObjects}

\* the application's start-up scene, before the script resets it
DefaultScenes == {<<>>, <<Object("MESH", MaxVerts, FALSE)>>}

\* sizes a file at the output path can have
FileSizes == {k * FileSizeStep : k \in 1..MaxFileSteps}

\* round n/d to the nearest integer, ties to even (d > 0): what the format
\* specifications .1f and .2f do to the value they print
RoundHalfEven(n, d) ==
    LET q == n \div d
        r == n % d
    IN  IF 2 * r > d THEN q + 1
        ELSE IF 2 * r < d THEN q
        ELSE IF q % 2 = 0 THEN q ELSE q + 1

\* [obj for obj in bpy.context.scene.objects if obj.type == 'MESH']
RECURSIVE MeshList(_, _)
MeshList(s, k) ==
    IF k > Len(s) THEN <<>>
    ELSE IF s[k].type = "MESH" THEN <<k>> \o MeshList(s, k + 1)
    ELSE MeshList(s, k + 1)

\* sum(len(obj.data.vertices) for obj in mesh_objects)
RECURSIVE SumVerts(_, _)
SumVerts(s, list) ==
    IF list = <<>> THEN 0
    ELSE s[Head(list)].verts + SumVerts(s, Tail(list))

\* an unhandled exception leaves main(); the exit code is then the host's:
\* 0 when the application carries on after a failed script, 1 when it is
\* told to fail or the script runs under a plain interpreter
Raise(at) ==
    /\ pc' = "raised"
    /\ raisedAt' = at
    /\ exitCode' \in {0, 1}

\* ------------------------------------------------------------------- Init
Init ==
    /\ pc = "start"
    /\ scene \in DefaultScenes
    /\ active = 0
    /\ mesh_objects = <<>>
    /\ idx = 0
    /\ total_verts_before = 0
    /\ total_verts_after = 0
    /\ fileExists \in BOOLEAN
    /\ fileSize \in (IF fileExists THEN {0} \cup FileSizes ELSE {0})
    /\ dirReachable \in BOOLEAN
    /\ exitCode = -1
    /\ raisedAt = "none"
    /\ log = <<>>
    /\ ops = <<>>
    /\ verts0 = <<>>
    /\ scriptSelected = {}
    /\ exportWrote = FALSE

\* ---------------------------------------------------------------- actions
\* lines 19-26: resolve the paths and print the configuration
Start ==
    /\ pc = "start"
    /\ log' = log \o <<Msg("Input", 0, 0, 0), Msg("Output", 0, 0, 0),
                       Msg("TargetRatio", TARGET_RATIO_PCT, 0, 0)>>
    /\ pc' = "reset"
    /\ UNCHANGED <<scene, active, mesh_objects, idx, total_verts_before,
                   total_verts_after, fileExists, fileSize, dirReachable,
                   exitCode, raisedAt, ops, verts0, scriptSelected, exportWrote>>

\* line 29: bpy.ops.wm.read_factory_settings(use_empty=True)
ResetScene ==
    /\ pc = "reset"
    /\ Invoke("reset")
    /\ scene' = <<>>
    /\ active' = 0
    /\ pc' = "import"
    /\ UNCHANGED <<mesh_objects, idx, total_verts_before, total_verts_after,
                   fileExists, fileSize, dirReachable, exitCode, raisedAt,
                   log, verts0, scriptSelected, exportWrote>>

\* lines 32-33: the import returns; the imported objects join the scene and
\* the host chooses the active object
ImportReturns ==
    /\ pc = "import"
    /\ Invoke("import")
    /\ Emit("Importing", 0, 0, 0)
    /\ \E imported \in ImportedScenes :
        /\ scene' = scene \o imported
        /\ verts0' = [k \in 1..Len(scene') |-> scene'[k].verts]
        /\ active' \in 0..Len(scene')
    /\ pc' = "get_meshes"
    /\ UNCHANGED <<mesh_objects, idx, total_verts_before, total_verts_after,
                   fileExists, fileSize, dirReachable, exitCode, raisedAt,
                   scriptSelected, exportWrote>>

\* lines 32-33: the import fails in the host and the exception propagates
ImportRaises ==
    /\ pc = "import"
    /\ Invoke("import")
    /\ Emit("Importing", 0, 0, 0)
    /\ Raise("import")
    /\ UNCHANGED <<scene, active, mesh_objects, idx, total_verts_before,
                   total_verts_after, fileExists, fileSize, dirReachable,
                   verts0, scriptSelected, exportWrote>>

\* line 36
GetMeshObjects ==
    /\ pc = "get_meshes"
    /\ mesh_objects' = MeshList(scene, 1)
    /\ pc' = "check_meshes"
    /\ UNCHANGED <<scene, active, idx, total_verts_before, total_verts_after,
                   fileExists, fileSize, dirReachable, exitCode, raisedAt,
                   log, ops, verts0, scriptSelected, exportWrote>>

\* variant: the emptiness test of line 38 left out
IsEmptyListNever(list) == FALSE

\* `if not mesh_objects` (line 38)
IsEmptyList(list) == Len(list) = 0

\* lines 38-40: no mesh objects: report and exit with code 1
NoMeshExit ==
    /\ pc = "check_meshes"
    /\ IsEmptyList(mesh_objects)
    /\ Emit("ERROR_NoMesh", 0, 0, 0)
    /\ exitCode' = 1
    /\ pc' = "exited"
    /\ UNCHANGED <<scene, active, mesh_objects, idx, total_verts_before,
                   total_verts_after, fileExists, fileSize, dirReachable,
                   raisedAt, ops, verts0, scriptSelected, exportWrote>>

\* lines 42-43: total before, and the "Found" message
SumBefore ==
    /\ pc = "check_meshes"
    /\ ~IsEmptyList(mesh_objects)
    /\ total_verts_before' = SumVerts(scene, mesh_objects)
    /\ Emit("Found", Len(mesh_objects), total_verts_before', 0)
    /\ idx' = 1
    /\ pc' = "loop"
    /\ UNCHANGED <<scene, active, mesh_objects, total_verts_after,
                   fileExists, fileSize, dirReachable, exitCode, raisedAt,
                   ops, verts0, scriptSelected, exportWrote>>

\* lines 46-51: next mesh object: print its vertex count, make it the
\* active object and select it
ProcessMesh ==
    /\ pc = "loop"
    /\ idx <= Len(mesh_objects)
    /\ LET obj == mesh_objects[idx] IN
        /\ Emit("Processing", obj, scene[obj].verts, 0)
        /\ active' = obj
        /\ scene' = [scene EXCEPT ![obj].selected = TRUE]
        /\ scriptSelected' = scriptSelected \cup {obj}
    /\ pc' = "add_modifier"
    /\ UNCHANGED <<mesh_objects, idx, total_verts_before, total_verts_after,
                   fileExists, fileSize, dirReachable, exitCode, raisedAt,
                   ops, verts0, exportWrote>>

\* variant: the modifier as obj.modifiers.new leaves it, lines 56-57 left out
DecimateModifierUnset ==
    [name |-> "Decimate", type |-> "DECIMATE", decimate_type |-> "COLLAPSE",
     ratio_pct |-> 100, use_collapse_triangulate |-> FALSE]

\* the modifier as lines 54-57 leave it
DecimateModifier ==
    [name |-> "Decimate", type |-> "DECIMATE", decimate_type |-> "COLLAPSE",
     ratio_pct |-> TARGET_RATIO_PCT, use_collapse_triangulate |-> TRUE]

\* lines 54-57: obj.modifiers.new(...) and its three settings
AddModifier ==
    /\ pc = "add_modifier"
    /\ LET obj == mesh_objects[idx] IN
        scene' = [scene EXCEPT
                    ![obj].modifiers = Append(@, DecimateModifier),
                    ![obj].created = @ + 1]
    /\ pc' = "apply"
    /\ UNCHANGED <<active, mesh_objects, idx, total_verts_before,
                   total_verts_after, fileExists, fileSize, dirReachable,
                   exitCode, raisedAt, log, ops, verts0, scriptSelected,
                   exportWrote>>

\* positions of the modifiers called `name` in a modifier stack
Named(stack, name) == {k \in 1..Len(stack) : stack[k].name = name}

\* a stack without its k-th modifier
Without(stack, k) ==
    [j \in 1..(Len(stack) - 1) |-> IF j < k THEN stack[j] ELSE stack[j + 1]]

\* vertex counts the host can leave when it applies modifier m to a mesh of
\* v vertices: an edge collapse only removes vertices, and at ratio 1 none
ModifierResults(m, v) ==
    IF m.type = "DECIMATE" /\ m.ratio_pct < 100 THEN 0..v ELSE {v}

\* line 60: bpy.ops.object.modifier_apply(modifier="Decimate") acts on the
\* active object; without one, or without a modifier of that name on it,
\* the operator fails and the exception propagates
ApplyModifier ==
    /\ pc = "apply"
    /\ Invoke("apply")
    /\ IF active = 0 \/ Named(scene[active].modifiers, "Decimate") = {}
       THEN /\ Raise("apply")
            /\ UNCHANGED scene
       ELSE LET stack == scene[active].modifiers
                k == CHOOSE j \in Named(stack, "Decimate") :
                        \A i \in Named(stack, "Decimate") : j <= i
            IN  /\ \E v \in ModifierResults(stack[k], scene[active].verts) :
                    scene' = [scene EXCEPT
                                ![active].verts = v,
                                ![active].modifiers = Without(stack, k),
                                ![active].applied =
                                    Append(@, [modifier |-> stack[k],
                                               loop_obj |-> mesh_objects[idx]])]
                /\ pc' = "after"
                /\ UNCHANGED <<exitCode, raisedAt>>
    /\ UNCHANGED <<active, mesh_objects, idx, total_verts_before,
                   total_verts_after, fileExists, fileSize, dirReachable,
                   log, verts0, scriptSelected, exportWrote>>

\* variant: line 62 prints the sum of line 65 instead
LoggedAfterTotal(s, list, obj) == SumVerts(s, list)

\* the count line 62 prints: len(obj.data.vertices) of the loop's object
LoggedAfter(s, list, obj) == s[obj].verts

\* lines 62-63: print the count after, deselect, and go round the loop
AfterApply ==
    /\ pc = "after"
    /\ LET obj == mesh_objects[idx] IN
        /\ Emit("After", obj, LoggedAfter(scene, mesh_objects, obj), 0)
        /\ scene' = [scene EXCEPT ![obj].selected = FALSE]
    /\ idx' = idx + 1
    /\ pc' = "loop"
    /\ UNCHANGED <<active, mesh_objects, total_verts_before,
                   total_verts_after, fileExists, fileSize, dirReachable,
                   exitCode, raisedAt, ops, verts0, scriptSelected,
                   exportWrote>>

\* line 65: total after, once the loop has run out
SumAfter ==
    /\ pc = "loop"
    /\ idx > Len(mesh_objects)
    /\ total_verts_after' = SumVerts(scene, mesh_objects)
    /\ pc' = "reduction"
    /\ UNCHANGED <<scene, active, mesh_objects, idx, total_verts_before,
                   fileExists, fileSize, dirReachable, exitCode, raisedAt,
                   log, ops, verts0, scriptSelected, exportWrote>>

\* variant: the share kept, (after / before) * 100, instead of the reduction
ReductionTenthsKept(before, after) ==
    RoundHalfEven(after * 1000, before)

\* (1 - after / before) * 100 as printed with .1f, in tenths of a percent.
\* The quotient is a tie between two tenths only when before is a multiple
\* of 16, so below that the float's rounding error cannot change the digit.
ReductionTenths(before, after) ==
    RoundHalfEven((before - after) * 1000, before)

\* lines 66-67: the reduction and the "Total" message; the division raises
\* ZeroDivisionError when total_verts_before is 0
Reduction ==
    /\ pc = "reduction"
    /\ IF total_verts_before = 0
       THEN /\ Raise("reduction")
            /\ UNCHANGED log
       ELSE /\ Emit("Total", total_verts_before, total_verts_after,
                    ReductionTenths(total_verts_before, total_verts_after))
            /\ pc' = "select"
            /\ UNCHANGED <<exitCode, raisedAt>>
    /\ UNCHANGED <<scene, active, mesh_objects, idx, total_verts_before,
                   total_verts_after, fileExists, fileSize, dirReachable,
                   ops, verts0, scriptSelected, exportWrote>>

\* membership in a list
InList(list, o) == \E k \in 1..Len(list) : list[k] = o

\* lines 70-71: select every mesh object for the export
SelectMeshes ==
    /\ pc = "select"
    /\ scene' = [k \in 1..Len(scene) |->
                    IF InList(mesh_objects, k)
                    THEN [scene[k] EXCEPT !.selected = TRUE]
                    ELSE scene[k]]
    /\ scriptSelected' = scriptSelected \cup {mesh_objects[k] : k \in 1..Len(mesh_objects)}
    /\ pc' = "export"
    /\ UNCHANGED <<active, mesh_objects, idx, total_verts_before,
                   total_verts_after, fileExists, fileSize, dirReachable,
                   exitCode, raisedAt, log, ops, verts0, exportWrote>>

\* lines 74-80: the export writes the file and returns
ExportWrites ==
    /\ pc = "export"
    /\ dirReachable
    /\ Emit("Exporting", 0, 0, 0)
    /\ Invoke("export")
    /\ fileExists' = TRUE
    /\ fileSize' \in FileSizes
    /\ exportWrote' = TRUE
    /\ pc' = "done_msg"
    /\ UNCHANGED <<scene, active, mesh_objects, idx, total_verts_before,
                   total_verts_after, dirReachable, exitCode, raisedAt,
                   verts0, scriptSelected>>

\* variant: a failed export is tried again
ExportRetries ==
    /\ pc = "export"
    /\ ~dirReachable
    /\ Emit("Exporting", 0, 0, 0)
    /\ Invoke("export")
    /\ pc' = "export"
    /\ UNCHANGED <<scene, active, mesh_objects, idx, total_verts_before,
                   total_verts_after, fileExists, fileSize, dirReachable,
                   exitCode, raisedAt, verts0, scriptSelected, exportWrote>>

\* lines 74-80: the export cannot write; it returns without a file written
ExportReturnsNoFile ==
    /\ pc = "export"
    /\ ~dirReachable
    /\ Emit("Exporting", 0, 0, 0)
    /\ Invoke("export")
    /\ pc' = "done_msg"
    /\ UNCHANGED <<scene, active, mesh_objects, idx, total_verts_before,
                   total_verts_after, fileExists, fileSize, dirReachable,
                   exitCode, raisedAt, verts0, scriptSelected, exportWrote>>

\* lines 74-80: the export cannot write; the host's error propagates
ExportRaises ==
    /\ pc = "export"
    /\ ~dirReachable
    /\ Emit("Exporting", 0, 0, 0)
    /\ Invoke("export")
    /\ Raise("export")
    /\ UNCHANGED <<scene, active, mesh_objects, idx, total_verts_before,
                   total_verts_after, fileExists, fileSize, dirReachable,
                   verts0, scriptSelected, exportWrote>>

\* line 82
LogDone ==
    /\ pc = "done_msg"
    /\ Emit("DONE", 0, 0, 0)
    /\ pc' = "verify"
    /\ UNCHANGED <<scene, active, mesh_objects, idx, total_verts_before,
                   total_verts_after, fileExists, fileSize, dirReachable,
                   exitCode, raisedAt, ops, verts0, scriptSelected,
                   exportWrote>>

\* variant: the existence test of line 85 always passes
PathExistsAlways(exists) == TRUE

\* os.path.exists(output_file)
PathExists(exists) == exists

\* size / (1024 * 1024) as printed with .2f, in hundredths of a megabyte
SizeMB(size) == RoundHalfEven(size * 100, BytesPerMB)

\* lines 85-90: the file exists: report its size; main() returns and the
\* run ends with exit code 0
VerifyFound ==
    /\ pc = "verify"
    /\ PathExists(fileExists)
    /\ Invoke("exists")
    /\ Emit("Size", SizeMB(fileSize), 0, 0)
    /\ exitCode' = 0
    /\ pc' = "returned"
    /\ UNCHANGED <<scene, active, mesh_objects, idx, total_verts_before,
                   total_verts_after, fileExists, fileSize, dirReachable,
                   raisedAt, verts0, scriptSelected, exportWrote>>

\* lines 85-90: no file: report and exit with code 1
VerifyMissing ==
    /\ pc = "verify"
    /\ ~PathExists(fileExists)
    /\ Invoke("exists")
    /\ Emit("ERROR_NoOutput", 0, 0, 0)
    /\ exitCode' = 1
    /\ pc' = "exited"
    /\ UNCHANGED <<scene, active, mesh_objects, idx, total_verts_before,
                   total_verts_after, fileExists, fileSize, dirReachable,
                   raisedAt, verts0, scriptSelected, exportWrote>>

Next ==
    \/ Start
    \/ ResetScene
    \/ ImportReturns
    \/ ImportRaises
    \/ GetMeshObjects
    \/ NoMeshExit
    \/ SumBefore
    \/ ProcessMesh
    \/ AddModifier
    \/ ApplyModifier
    \/ AfterApply
    \/ SumAfter
    \/ Reduction
    \/ SelectMeshes
    \/ ExportWrites
    \/ ExportReturnsNoFile
    \/ ExportRaises
    \/ LogDone
    \/ VerifyFound
    \/ VerifyMissing

Spec == Init /\ [][Next]_vars

\* ------------------------------------------------------------- properties
Last(q) == q[Len(q)]

Terminated == pc \in {"returned", "exited", "raised"}

\* the import has returned
Imported == pc \notin {"start", "reset", "import"} /\ raisedAt # "import"

MeshIds == {k \in 1..Len(scene) : scene[k].type = "MESH"}

Invoked(op) == \E j \in 1..Len(ops) : ops[j] = op

\* sum of f over the mesh objects among the first k objects of the scene
RECURSIVE MeshTotal(_, _)
MeshTotal(f, k) ==
    IF k = 0 THEN 0
    ELSE MeshTotal(f, k - 1) + (IF scene[k].type = "MESH" THEN f[k] ELSE 0)

VertsNow == [k \in 1..Len(scene) |-> scene[k].verts]

\* C1: when the scene holds no MESH object after the import, main() goes
\* straight to the 'No mesh objects found' error and exit code 1; no modifier
\* is ever created or applied and the export is never invoked.
C1_NoMeshExits ==
    (Imported /\ MeshIds = {}) =>
        /\ pc \in {"get_meshes", "check_meshes", "exited"}
        /\ pc = "exited" => (exitCode = 1 /\ Last(log).msg = "ERROR_NoMesh")
        /\ \A k \in 1..Len(scene) :
             scene[k].created = 0 /\ scene[k].applied = <<>>
        /\ ~Invoked("apply") /\ ~Invoked("export")

C1_Witness ==
    /\ pc = "exited"
    /\ Last(log).msg = "ERROR_NoMesh"
    /\ Len(scene) > 0
    /\ MeshIds = {}

\* C2: once the export has returned, the existence check decides the run:
\* no file, the 'Output file was not created' error and exit code 1; a file,
\* its size in megabytes is reported and the run ends with exit code 0.
C2_VerifyOutcome ==
    /\ pc \in {"done_msg", "verify"} => (Last(ops) = "export" /\ exitCode = -1)
    /\ Invoked("exists") =>
         IF fileExists
         THEN /\ pc = "returned"
              /\ exitCode = 0
              /\ Last(log) = Msg("Size", RoundHalfEven(fileSize * 100, 1048576), 0, 0)
         ELSE /\ pc = "exited"
              /\ exitCode = 1
              /\ Last(log).msg = "ERROR_NoOutput"

C2_Witness ==
    /\ pc = "exited"
    /\ Last(ops) = "exists"
    /\ ~fileExists
    /\ Last(log).msg = "ERROR_NoOutput"

\* C3: a run with at least one mesh object in the imported scene and a
\* reachable output directory, in which no host operation fails, ends with
\* exit code 0 and a non-empty output file.
C3_MeshAndDirSucceed ==
    (Terminated /\ Imported /\ MeshIds # {} /\ dirReachable
        /\ raisedAt \notin {"import", "apply", "export"}) =>
            (exitCode = 0 /\ fileExists /\ fileSize > 0)

\* C4: every "After" count printed follows the "Processing" line of the same
\* mesh and is at most the count printed there; and once both totals are
\* taken, the total after is at most the total before.
TotalsTaken ==
    \/ pc \in {"reduction", "select", "export", "done_msg", "verify", "returned"}
    \/ pc = "exited" /\ Invoked("export")
    \/ raisedAt \in {"reduction", "export"}

C4_AfterLeBefore ==
    /\ \A j \in 1..Len(log) :
         log[j].msg = "After" =>
            /\ j > 1
            /\ log[j - 1].msg = "Processing"
            /\ log[j - 1].a = log[j].a
            /\ log[j].b <= log[j - 1].b
    /\ TotalsTaken => total_verts_after <= total_verts_before

C4_Witness ==
    /\ pc = "select"
    /\ Len(mesh_objects) >= 2
    /\ \E j \in 2..Len(log) : log[j].msg = "After" /\ log[j].b < log[j - 1].b
    /\ total_verts_after < total_verts_before

\* C5 as stated: the percentage printed equals (1 - after / before) * 100,
\* the totals being the sums over the mesh objects before and after.
C5_ReductionExact ==
    \A j \in 1..Len(log) :
        log[j].msg = "Total" =>
            LET before == MeshTotal(verts0, Len(scene))
                after == MeshTotal(VertsNow, Len(scene))
            IN  log[j].c * before = (before - after) * 1000

\* C5 amended: the totals printed are the sum over the mesh objects as
\* imported and the sum over the same objects after every modifier was
\* applied, and the percentage printed is (1 - after / before) * 100 rounded
\* to one decimal place: it is within 0.05 of that value.
C5_ReductionRounded ==
    \A j \in 1..Len(log) :
        log[j].msg = "Total" =>
            LET before == MeshTotal(verts0, Len(scene))
                after == MeshTotal(VertsNow, Len(scene))
                diff == log[j].c * before - (before - after) * 1000
            IN  /\ log[j].a = before
                /\ log[j].b = after
                /\ before > 0
                /\ 2 * diff <= before
                /\ 2 * diff >= 0 - before

C5_Witness ==
    /\ pc = "select"
    /\ Last(log).msg = "Total"
    /\ Last(log).c * Last(log).a # (Last(log).a - Last(log).b) * 1000
    /\ Last(log).b > 0

\* C6: the host operations happen in the order reset, import, modifier
\* applications, export, existence check; reset, import, export and the check
\* happen at most once, and no modifier is applied after the export.
OpRank(op) ==
    CASE op = "reset" -> 1
      [] op = "import" -> 2
      [] op = "apply" -> 3
      [] op = "export" -> 4
      [] op = "exists" -> 5

C6_HostOrder ==
    /\ \A i, j \in 1..Len(ops) :
         i < j => /\ OpRank(ops[i]) <= OpRank(ops[j])
                  /\ OpRank(ops[i]) = OpRank(ops[j]) => ops[i] = "apply"
    /\ Len(ops) >= 1 => ops[1] = "reset"
    /\ Len(ops) >= 2 => ops[2] = "import"
    /\ Invoked("exists") => Invoked("export")

C6_Witness ==
    /\ pc \in {"returned", "exited"}
    /\ Last(ops) = "exists"
    /\ Cardinality({j \in 1..Len(ops) : ops[j] = "apply"}) >= 2

\* C7: when the export is invoked, every mesh object has had exactly one
\* modifier created and applied, a DECIMATE of type COLLAPSE with ratio 0.02
\* and triangulation, applied while the loop was at that object, and is
\* selected; no other object has had a modifier or been selected by the script.
C7_ExportedMeshesDecimated ==
    Invoked("export") =>
        \A k \in 1..Len(scene) :
            IF scene[k].type = "MESH"
            THEN /\ scene[k].created = 1
                 /\ scene[k].modifiers = <<>>
                 /\ Len(scene[k].applied) = 1
                 /\ scene[k].applied[1].loop_obj = k
                 /\ scene[k].applied[1].modifier.type = "DECIMATE"
                 /\ scene[k].applied[1].modifier.decimate_type = "COLLAPSE"
                 /\ scene[k].applied[1].modifier.ratio_pct = 2
                 /\ scene[k].applied[1].modifier.use_collapse_triangulate
                 /\ scene[k].selected
            ELSE /\ scene[k].created = 0
                 /\ scene[k].modifiers = <<>>
                 /\ scene[k].applied = <<>>
                 /\ k \notin scriptSelected

C7_Witness ==
    /\ pc = "done_msg"
    /\ MeshIds # {}
    /\ \E k \in 1..Len(scene) : scene[k].type # "MESH" /\ scene[k].selected

\* C8: between the mesh check and the export the script has no abort path:
\* total_verts_before is positive whenever the reduction is computed and no
\* run is ended by that computation.
C8_NoAbortBeforeExport ==
    /\ pc = "reduction" => total_verts_before > 0
    /\ raisedAt # "reduction"

\* C9: no run prints 'DONE!' and afterwards an ERROR message with exit code 1.
C9_DoneOnlyOnSuccess ==
    ~ \E i, j \in 1..Len(log) :
        /\ i < j
        /\ log[i].msg = "DONE"
        /\ log[j].msg \in {"ERROR_NoMesh", "ERROR_NoOutput"}
        /\ exitCode = 1

\* C10: a run that reports success (main() returns, exit code 0) has had its
\* own export write the file at the output path.
C10_SuccessMeansWritten ==
    (pc = "returned" /\ exitCode = 0) => exportWrote
====
